---- MODULE Spec2Model ----
(***************************************************************************)
(* Model of the schnetpack script utilities and training scripts:          *)
(*   schnetpack/utils/script_utils/setup.py     (setup_run)                *)
(*   schnetpack/utils/script_utils/training.py  (get_trainer, losses)      *)
(*   scripts/schnetpack_{ani1,md17,qm9}.py      (the __main__ drivers)     *)
(***************************************************************************)
EXTENDS Integers, Sequences, FiniteSets, TLC

VARIABLES
    fs,          \* file system: modelpath -> [exists, files: name -> content]
    rng_seed,    \* the seed last handed to set_random_seed (NoSeed before)
    call,        \* the last setup_run call: arguments, outcome, file system before
    last_train,  \* history: modelpath -> vars(args) of the latest train-mode setup_run
    pc,          \* position of the running script
    script,      \* which script runs: "ani1", "md17" or "qm9"
    args,        \* parser.parse_args()
    train_args,  \* what setup_run returned
    run,         \* the script's locals: metrics, dataset, output module, model, trainer
    events,      \* the calls the running script has completed, in order
    error,       \* the exception that ended the script, if any
    loss_batch,    \* loss evaluation: reference values, property name -> tensor
    loss_result,   \* loss evaluation: predicted values, property name -> tensor
    loss_closure,  \* loss evaluation: the closure under evaluation
    loss_value     \* loss evaluation: what the last call of the closure returned

setup_vars == <<fs, rng_seed, call, last_train>>
script_vars == <<pc, script, args, train_args, run, events, error>>
loss_vars == <<loss_batch, loss_result, loss_closure, loss_value>>

vars == <<fs, rng_seed, call, last_train, pc, script, args, train_args, run,
          events, error, loss_batch, loss_result, loss_closure, loss_value>>

(***************************************************************************)
(* Bounds of the model.                                                    *)
(***************************************************************************)
MaxSeed == 1
MaxVal == 1

(***************************************************************************)
(* Values                                                                  *)
(***************************************************************************)
Paths == {"model_a", "model_b"}
Modes == {"train", "eval", "predict"}
ArtefactNames == {"best_model", "split.npz"}
NoSeed == [set |-> FALSE, value |-> 0]
JsonName == "args.json"

\* The command-line namespaces setup_run is called with.
SetupArgs ==
    [mode : Modes, modelpath : Paths, overwrite : BOOLEAN, seed : 0..MaxSeed]

(***************************************************************************)
(* JSON persistence (schnetpack.utils.spk_utils.to_json / read_from_json). *)
(* A JSON document is a map key -> token, a token is <<type, text>>.       *)
(***************************************************************************)
Digits == <<"0", "1", "2", "3", "4", "5", "6", "7", "8", "9">>

\* Floats are modelled as reduced fractions <<numerator, denominator>>.
FloatText ==
    {<<<<0, 1>>, "0.0">>, <<<<1, 10>>, "0.1">>, <<<<1, 2>>, "0.5">>,
     <<<<1, 1>>, "1.0">>, <<<<3, 2>>, "1.5">>, <<<<1, 10000>>, "0.0001">>,
     <<<<1, 1000000>>, "1e-06">>}

\* The Python type of each command-line attribute.
FieldType(k) ==
    CASE k \in {"overwrite", "remove_uncharacterized"} -> "bool"
      [] k \in {"seed", "max_epochs", "lr_patience", "log_every_n_epochs"} -> "int"
      [] k \in {"rho", "lr", "lr_decay", "lr_min"} -> "float"
      [] OTHER -> "str"

json_dumps(k, v) ==
    CASE FieldType(k) = "bool" -> <<"bool", IF v THEN "true" ELSE "false">>
      [] FieldType(k) = "int" -> <<"number", Digits[v + 1]>>
      [] FieldType(k) = "float" ->
            <<"number", (CHOOSE e \in FloatText : e[1] = v)[2]>>
      [] OTHER -> <<"string", v>>

json_loads(tok) ==
    CASE tok[1] = "bool" -> (tok[2] = "true")
      [] tok[1] = "number" ->
            IF \E i \in 0..9 : Digits[i + 1] = tok[2]
            THEN CHOOSE i \in 0..9 : Digits[i + 1] = tok[2]
            ELSE (CHOOSE e \in FloatText : e[2] = tok[2])[1]
      [] OTHER -> tok[2]

EncodeDict(d) == [k \in DOMAIN d |-> json_dumps(k, d[k])]
DecodeDoc(doc) == [k \in DOMAIN doc |-> json_loads(doc[k])]

(***************************************************************************)
(* File system primitives used by setup_run.                               *)
(***************************************************************************)
NoFiles == [n \in {} |-> "none"]
AbsentDir == [exists |-> FALSE, files |-> NoFiles]
EmptyDir == [exists |-> TRUE, files |-> NoFiles]

path_exists(f, p) == f[p].exists

rmtree(f, p) == [f EXCEPT ![p] = AbsentDir]

makedirs(f, p) == [f EXCEPT ![p] = EmptyDir]

write_file(f, p, name, content) ==
    [f EXCEPT ![p].files =
        [n \in DOMAIN f[p].files \cup {name} |->
            IF n = name THEN content ELSE f[p].files[n]]]

has_file(f, p, name) == f[p].exists /\ name \in DOMAIN f[p].files

\* to_json(jsonpath, argparse_dict): json.dump of the dict into the file
to_json(f, p, d) == write_file(f, p, JsonName, EncodeDict(d))

\* read_from_json(jsonpath): Namespace(**json.loads(file))
read_from_json(f, p) == DecodeDoc(f[p].files[JsonName])

OtherFiles(f, p) ==
    [n \in DOMAIN f[p].files \ {JsonName} |-> f[p].files[n]]

\* schnetpack.utils.spk_utils.set_random_seed(seed)
set_random_seed(seed) == [set |-> TRUE, value |-> seed]

(***************************************************************************)
(* setup_run(args)                                                         *)
(***************************************************************************)
\* Variant: the tree is removed whether or not --overwrite was given.
AfterOverwrite_ignoring_flag(f, a) ==
    IF path_exists(f, a.modelpath) THEN rmtree(f, a.modelpath) ELSE f

AfterOverwrite(f, a) ==
    IF a.overwrite /\ path_exists(f, a.modelpath)
    THEN rmtree(f, a.modelpath) ELSE f

\* Variant: the directory is never created.
AfterMakedirs_never(f, a) == f

\* Variant: the directory is created anew even when it exists.
AfterMakedirs_always(f, a) == makedirs(f, a.modelpath)

AfterMakedirs(f, a) ==
    IF ~path_exists(f, a.modelpath) THEN makedirs(f, a.modelpath) ELSE f

\* Variant: an args.json that is already there is kept.
setup_run_keeping_old_json(a, f, s) ==
    IF a.mode = "train"
    THEN LET f1 == AfterOverwrite(f, a)
             f2 == AfterMakedirs(f1, a)
             f3 == IF has_file(f2, a.modelpath, JsonName) THEN f2
                   ELSE to_json(f2, a.modelpath, a)
         IN [fs |-> f3, seed |-> set_random_seed(a.seed), err |-> "none",
             ref |-> "args", ret |-> a]
    ELSE IF has_file(f, a.modelpath, JsonName)
         THEN [fs |-> f, seed |-> s, err |-> "none",
               ref |-> "new_namespace", ret |-> read_from_json(f, a.modelpath)]
         ELSE [fs |-> f, seed |-> s, err |-> "FileNotFoundError",
               ref |-> "none", ret |-> a]

\* Variant: only "eval" reads the stored configuration, any other mode writes it.
setup_run_reading_only_in_eval(a, f, s) ==
    IF a.mode # "eval"
    THEN LET f1 == AfterOverwrite(f, a)
             f2 == AfterMakedirs(f1, a)
             f3 == to_json(f2, a.modelpath, a)
         IN [fs |-> f3, seed |-> set_random_seed(a.seed), err |-> "none",
             ref |-> "args", ret |-> a]
    ELSE IF has_file(f, a.modelpath, JsonName)
         THEN [fs |-> f, seed |-> s, err |-> "none",
               ref |-> "new_namespace", ret |-> read_from_json(f, a.modelpath)]
         ELSE [fs |-> f, seed |-> s, err |-> "FileNotFoundError",
               ref |-> "none", ret |-> a]

\* The outcome of setup_run(a) started on file system f with RNG seed s.
setup_run(a, f, s) ==
    IF a.mode = "train"
    THEN LET f1 == AfterOverwrite(f, a)
             f2 == AfterMakedirs(f1, a)
             f3 == to_json(f2, a.modelpath, a)
         IN [fs |-> f3, seed |-> set_random_seed(a.seed), err |-> "none",
             ref |-> "args", ret |-> a]
    ELSE IF has_file(f, a.modelpath, JsonName)
         THEN [fs |-> f, seed |-> s, err |-> "none",
               ref |-> "new_namespace", ret |-> read_from_json(f, a.modelpath)]
         ELSE [fs |-> f, seed |-> s, err |-> "FileNotFoundError",
               ref |-> "none", ret |-> a]

(***************************************************************************)
(* Tensors (flat sequences of integers) and exact arithmetic on the        *)
(* fractions that torch.mean and the rho weighting produce.                *)
(***************************************************************************)
Abs(x) == IF x < 0 THEN -x ELSE x

RECURSIVE GCD(_, _)
GCD(a, b) == IF b = 0 THEN a ELSE GCD(b, a % b)

Frac(n, d) ==
    LET g == GCD(Abs(n), Abs(d))
        s == IF d < 0 THEN -1 ELSE 1
    IN <<(s * n) \div g, (s * d) \div g>>

FracAdd(x, y) == Frac(x[1] * y[2] + y[1] * x[2], x[2] * y[2])
FracSub(x, y) == Frac(x[1] * y[2] - y[1] * x[2], x[2] * y[2])
FracMul(x, y) == Frac(x[1] * y[1], x[2] * y[2])
One == <<1, 1>>

RECURSIVE SumTo(_, _)
SumTo(t, n) == IF n = 0 THEN 0 ELSE t[n] + SumTo(t, n - 1)

SumSeq(t) == SumTo(t, Len(t))

tensor_sub(x, y) == [i \in 1..Len(x) |-> x[i] - y[i]]
tensor_square(x) == [i \in 1..Len(x) |-> x[i] * x[i]]
torch_mean(x) == Frac(SumSeq(x), Len(x))

(***************************************************************************)
(* training.py: the loss closures.  A closure is a record holding the      *)
(* function it is and the variables it captured.                           *)
(***************************************************************************)
NoDerivative == "none"

simple_loss_fn(a) ==
    [fn |-> "simple_loss", args |-> a, derivative |-> NoDerivative]

tradeoff_loff_fn(a, derivative) ==
    [fn |-> "tradeoff_loss", args |-> a, derivative |-> derivative]

\* simple_loss_fn.<locals>.loss(batch, result)
simple_loss(a, batch, result) ==
    LET diff == tensor_sub(batch[a.property], result[a.property])
        diff2 == tensor_square(diff)
    IN torch_mean(diff2)

\* Variant: the two weights are exchanged.
tradeoff_loss_weights_swapped(a, derivative, batch, result) ==
    LET diff == tensor_square(tensor_sub(batch[a.property], result[a.property]))
        der_diff == tensor_square(tensor_sub(batch[derivative], result[derivative]))
    IN FracAdd(FracMul(FracSub(One, a.rho), torch_mean(diff)),
               FracMul(a.rho, torch_mean(der_diff)))

\* tradeoff_loff_fn.<locals>.loss(batch, result)
tradeoff_loss(a, derivative, batch, result) ==
    LET diff == tensor_square(tensor_sub(batch[a.property], result[a.property]))
        der_diff == tensor_square(tensor_sub(batch[derivative], result[derivative]))
    IN FracAdd(FracMul(a.rho, torch_mean(diff)),
               FracMul(FracSub(One, a.rho), torch_mean(der_diff)))

\* Calling a loss closure.
call_loss(f, batch, result) ==
    IF f.fn = "simple_loss"
    THEN simple_loss(f.args, batch, result)
    ELSE tradeoff_loss(f.args, f.derivative, batch, result)

(***************************************************************************)
(* training.py: get_trainer                                                *)
(***************************************************************************)
NoneLoss == [fn |-> "None"]

MaxEpochHook(max_epochs) == [cls |-> "MaxEpochHook", max_epochs |-> max_epochs]

Adam(params, lr) == [cls |-> "Adam", params |-> params, lr |-> lr]

ReduceLROnPlateauHook(a, optimizer) ==
    [cls |-> "ReduceLROnPlateauHook", optimizer |-> optimizer,
     patience |-> a.lr_patience, factor |-> a.lr_decay, min_lr |-> a.lr_min,
     window_length |-> 1, stop_after_min |-> TRUE]

LoggingHook(cls, a, metrics) ==
    [cls |-> cls, path |-> <<a.modelpath, "log">>, metrics |-> metrics,
     every_n_epochs |-> a.log_every_n_epochs]

\* Variant: any logger other than tensorboard gets a CSV log.
LoggerHooks_csv_by_default(a, metrics) ==
    IF a.logger = "tensorboard"
    THEN <<LoggingHook("TensorboardHook", a, metrics)>>
    ELSE <<LoggingHook("CSVHook", a, metrics)>>

LoggerHooks(a, metrics) ==
    IF a.logger = "csv" THEN <<LoggingHook("CSVHook", a, metrics)>>
    ELSE IF a.logger = "tensorboard"
         THEN <<LoggingHook("TensorboardHook", a, metrics)>>
         ELSE <<>>

\* Variant: the loss passed by the caller is dropped.
SelectLoss_always_simple(a, loss_fn) == simple_loss_fn(a)

SelectLoss(a, loss_fn) ==
    IF loss_fn.fn = "None" THEN simple_loss_fn(a) ELSE loss_fn

get_trainer(a, model, train_loader, val_loader, metrics, loss_fn) ==
    LET optimizer == Adam(model, a.lr)
        hooks == <<MaxEpochHook(a.max_epochs)>>
                 \o <<ReduceLROnPlateauHook(a, optimizer)>>
                 \o LoggerHooks(a, metrics)
    IN [cls |-> "Trainer", modelpath |-> a.modelpath, model |-> model,
        loss_fn |-> SelectLoss(a, loss_fn), optimizer |-> optimizer,
        train_loader |-> train_loader, val_loader |-> val_loader,
        checkpoint_interval |-> 1, hooks |-> hooks]

(***************************************************************************)
(* The scripts: scripts/schnetpack_{ani1,md17,qm9}.py, __main__            *)
(***************************************************************************)
Scripts == {"ani1", "md17", "qm9"}
ModelNames == {"schnet", "wacsf", "wascf"}
Loggers == {"csv", "tensorboard", "none"}
ScriptRhos == {<<1, 10>>, <<1, 1>>}
ScriptPaths == {"model_a"}
Unset == [cls |-> "unset"]
NoArgs == [mode |-> "none"]
NoError == [type |-> "none", at |-> "none"]
NoRun ==
    [metrics |-> <<>>, dataset |-> Unset, loaders |-> Unset,
     representation |-> Unset, output_module |-> Unset, model |-> Unset,
     trainer |-> Unset]

\* add_subparsers(..., choices=dict(property=[...]))
Properties(s) ==
    CASE s = "ani1" -> {"energy"}
      [] s = "md17" -> {"energy", "forces"}
      [] s = "qm9" -> {"energy_U0", "dipole_moment"}

CommonArgs(s) ==
    [mode : Modes, modelpath : ScriptPaths, overwrite : BOOLEAN, seed : {0},
     model : ModelNames, property : Properties(s), logger : Loggers,
     max_epochs : {5}, lr : {<<1, 10000>>}, lr_patience : {3},
     lr_decay : {<<1, 2>>}, lr_min : {<<1, 1000000>>},
     log_every_n_epochs : {1}]

\* parser.parse_args(): the namespaces each script can be started with.
ScriptArgs(s) ==
    CASE s = "ani1" -> CommonArgs(s)
      [] s = "md17" -> {a @@ [rho |-> r] : a \in CommonArgs(s), r \in ScriptRhos}
      [] s = "qm9" ->
            {a @@ [remove_uncharacterized |-> FALSE] : a \in CommonArgs(s)}

Metric(cls, target) == [cls |-> cls, target |-> target]

\* "define metrics"
Metrics(s, ta) ==
    IF s = "md17"
    THEN <<Metric("MeanAbsoluteError", "energy"),
           Metric("RootMeanSquaredError", "energy"),
           Metric("MeanAbsoluteError", "forces"),
           Metric("RootMeanSquaredError", "forces")>>
    ELSE <<Metric("MeanAbsoluteError", ta.property),
           Metric("RootMeanSquaredError", ta.property)>>

\* "build dataset"
Dataset(s, a, ta) ==
    [cls |-> s, collect_triples |-> (a.model = "wacsf"),
     load_only |-> IF s = "md17" THEN "all" ELSE ta.property]

\* QM9 reads train_args.remove_uncharacterized while building the dataset.
DatasetError(s, ta) ==
    IF s = "qm9" /\ "remove_uncharacterized" \notin DOMAIN ta
    THEN "AttributeError" ELSE "none"

\* "build output module": the class chosen, or the exception raised.
OutputModule(cls, a) == [cls |-> cls, property |-> a.property, err |-> "none"]
Raise(e) == [cls |-> "unset", property |-> "none", err |-> e]

ani1_output_module(a) ==
    IF a.model = "schnet" THEN OutputModule("Atomwise", a)
    ELSE IF a.model = "wacsf" THEN OutputModule("ElementalAtomwise", a)
    ELSE Raise("NotImplementedError")

md17_output_module(a) ==
    IF a.model = "schnet" THEN OutputModule("Atomwise", a)
    ELSE IF a.model = "wascf"
         THEN IF "porperty" \in DOMAIN a
              THEN OutputModule("ElementalAtomwise", a)
              ELSE Raise("AttributeError")
    ELSE Raise("NotImplementedError")

qm9_output_module(a) ==
    IF a.model = "schnet"
    THEN IF a.property = "dipole_moment"
         THEN OutputModule("DipoleMoment", a)
         ELSE OutputModule("Atomwise", a)
    ELSE IF a.model = "wacsf"
         THEN IF a.property = "dipole_moment"
              THEN OutputModule("ElementalDipoleMoment", a)
              ELSE OutputModule("ElementalAtomwise", a)
    ELSE Raise("NotImplementedError")

output_module(s, a) ==
    CASE s = "ani1" -> ani1_output_module(a)
      [] s = "md17" -> md17_output_module(a)
      [] s = "qm9" -> qm9_output_module(a)

\* The loss_fn argument each script passes to get_trainer.
ScriptLoss(s, a) ==
    IF s = "md17" THEN tradeoff_loff_fn(a, "forces") ELSE NoneLoss

\* The files trainer.train leaves under modelpath.
HasLogger(t) ==
    \E i \in 1..Len(t.hooks) : t.hooks[i].cls \in {"CSVHook", "TensorboardHook"}

TrainOutputs(t) ==
    {"best_model", "checkpoints"} \cup (IF HasLogger(t) THEN {"log"} ELSE {})

RECURSIVE write_files(_, _, _, _)
write_files(f, p, names, content) ==
    IF names = {} THEN f
    ELSE LET n == CHOOSE x \in names : TRUE
         IN write_files(write_file(f, p, n, content), p, names \ {n}, content)

(***************************************************************************)
(* Steps.  A call of setup_run is one step; it records the call and the    *)
(* history of train-mode calls.                                            *)
(***************************************************************************)
NoCall == [made |-> FALSE]
NoTrain == [done |-> FALSE, vars |-> NoFiles]

DoSetupRun(a) ==
    LET o == setup_run(a, fs, rng_seed)
    IN /\ fs' = o.fs
       /\ rng_seed' = o.seed
       /\ call' = [made |-> TRUE, args |-> a, before |-> fs,
                   seed_before |-> rng_seed, err |-> o.err, ref |-> o.ref,
                   ret |-> o.ret]
       /\ last_train' =
            IF a.mode = "train"
            THEN [last_train EXCEPT ![a.modelpath] = [done |-> TRUE, vars |-> a]]
            ELSE last_train

Final == {"done", "failed"}

Fail(type, at) ==
    /\ pc' = "failed"
    /\ error' = [type |-> type, at |-> at]

\* args = parser.parse_args()
Launch ==
    /\ pc = "idle"
    /\ \E s \in Scripts : \E a \in ScriptArgs(s) :
          /\ script' = s
          /\ args' = a
          /\ train_args' = a
    /\ pc' = "setup_run"
    /\ run' = NoRun
    /\ events' = <<"parse_args">>
    /\ error' = NoError
    /\ call' = NoCall
    /\ UNCHANGED <<fs, rng_seed, last_train, loss_vars>>

\* train_args = setup_run(args)
SetupRun ==
    /\ pc = "setup_run"
    /\ DoSetupRun(args)
    /\ LET o == setup_run(args, fs, rng_seed)
       IN IF o.err = "none"
          THEN /\ train_args' = o.ret
               /\ pc' = "dataset"
               /\ events' = Append(events, "setup_run")
               /\ error' = error
          ELSE /\ Fail(o.err, "setup_run")
               /\ UNCHANGED <<train_args, events>>
    /\ UNCHANGED <<script, args, run, loss_vars>>

\* metrics, the dataset and its atomrefs
BuildDataset ==
    /\ pc = "dataset"
    /\ IF DatasetError(script, train_args) = "none"
       THEN /\ run' = [run EXCEPT !.metrics = Metrics(script, train_args),
                                  !.dataset = Dataset(script, args, train_args)]
            /\ pc' = "loaders"
            /\ events' = Append(events, "dataset")
            /\ error' = error
       ELSE /\ Fail(DatasetError(script, train_args), "dataset")
            /\ UNCHANGED <<run, events>>
    /\ call' = NoCall
    /\ UNCHANGED <<fs, rng_seed, last_train, script, args, train_args, loss_vars>>

\* get_loaders(args, dataset, split_path): the split is stored in split.npz
GetLoaders ==
    /\ pc = "loaders"
    /\ fs' = IF has_file(fs, args.modelpath, "split.npz") THEN fs
             ELSE write_file(fs, args.modelpath, "split.npz", "new")
    /\ run' = [run EXCEPT !.loaders =
                  [cls |-> "loaders", split_path |-> <<args.modelpath, "split.npz">>]]
    /\ pc' = "mode"
    /\ events' = Append(events, "get_loaders")
    /\ call' = NoCall
    /\ UNCHANGED <<rng_seed, last_train, script, args, train_args, error, loss_vars>>

\* if args.mode == "train": get_statistics, get_representation
GetRepresentation ==
    /\ pc = "mode"
    /\ args.mode = "train"
    /\ run' = [run EXCEPT !.representation =
                  [cls |-> "representation", model |-> args.model]]
    /\ pc' = "output_module"
    /\ events' = Append(events, "get_representation")
    /\ UNCHANGED <<setup_vars, script, args, train_args, error, loss_vars>>

\* "build output module"
BuildOutputModule ==
    /\ pc = "output_module"
    /\ LET m == output_module(script, args)
       IN IF m.err = "none"
          THEN /\ run' = [run EXCEPT !.output_module = m]
               /\ pc' = "get_model"
               /\ events' = Append(events, "output_module")
               /\ error' = error
          ELSE /\ Fail(m.err, "output_module")
               /\ UNCHANGED <<run, events>>
    /\ UNCHANGED <<setup_vars, script, args, train_args, loss_vars>>

\* model = get_model(representation, output_modules=...)
GetModel ==
    /\ pc = "get_model"
    /\ run' = [run EXCEPT !.model =
                  [cls |-> "AtomisticModel", source |-> "get_model",
                   output_module |-> run.output_module.cls]]
    /\ pc' = "get_trainer"
    /\ events' = Append(events, "get_model")
    /\ UNCHANGED <<setup_vars, script, args, train_args, error, loss_vars>>

\* trainer = get_trainer(args, model, train_loader, val_loader, metrics[, loss_fn])
GetTrainer ==
    /\ pc = "get_trainer"
    /\ run' = [run EXCEPT !.trainer =
                  get_trainer(args, run.model, "train_loader", "val_loader",
                              run.metrics, ScriptLoss(script, args))]
    /\ pc' = "train"
    /\ events' = Append(events, "get_trainer")
    /\ UNCHANGED <<setup_vars, script, args, train_args, error, loss_vars>>

\* trainer.train(device, n_epochs)
Train ==
    /\ pc = "train"
    /\ fs' = write_files(fs, run.trainer.modelpath, TrainOutputs(run.trainer), "new")
    /\ pc' = "done"
    /\ events' = Append(events, "train")
    /\ UNCHANGED <<rng_seed, call, last_train, script, args, train_args, run,
                   error, loss_vars>>

\* Variant: every mode other than "train" is taken for "eval".
LoadModel_in_any_other_mode ==
    /\ pc = "mode"
    /\ args.mode # "train"
    /\ IF has_file(fs, args.modelpath, "best_model")
       THEN /\ run' = [run EXCEPT !.model =
                         [cls |-> "AtomisticModel", source |-> "torch.load",
                          path |-> <<args.modelpath, "best_model">>]]
            /\ pc' = "evaluate"
            /\ events' = Append(events, "torch.load")
            /\ error' = error
       ELSE /\ Fail("FileNotFoundError", "torch.load")
            /\ UNCHANGED <<run, events>>
    /\ UNCHANGED <<setup_vars, script, args, train_args, loss_vars>>

\* elif args.mode == "eval": model = torch.load(modelpath/best_model)
LoadModel ==
    /\ pc = "mode"
    /\ args.mode = "eval"
    /\ IF has_file(fs, args.modelpath, "best_model")
       THEN /\ run' = [run EXCEPT !.model =
                         [cls |-> "AtomisticModel", source |-> "torch.load",
                          path |-> <<args.modelpath, "best_model">>]]
            /\ pc' = "evaluate"
            /\ events' = Append(events, "torch.load")
            /\ error' = error
       ELSE /\ Fail("FileNotFoundError", "torch.load")
            /\ UNCHANGED <<run, events>>
    /\ UNCHANGED <<setup_vars, script, args, train_args, loss_vars>>

\* evaluate(args, model, train_loader, val_loader, test_loader, device, metrics)
Evaluate ==
    /\ pc = "evaluate"
    /\ pc' = "done"
    /\ events' = Append(events, "evaluate")
    /\ UNCHANGED <<setup_vars, script, args, train_args, run, error, loss_vars>>

\* else: raise NotImplementedError("Unknown mode:", args.mode)
UnknownMode ==
    /\ pc = "mode"
    /\ args.mode \notin {"train", "eval"}
    /\ Fail("NotImplementedError", "mode")
    /\ UNCHANGED <<setup_vars, script, args, train_args, run, events, loss_vars>>

\* The script's process ends; the next run starts from the file system it left.
Exit ==
    /\ pc \in Final
    /\ pc' = "idle"
    /\ script' = "none"
    /\ args' = NoArgs
    /\ train_args' = NoArgs
    /\ run' = NoRun
    /\ events' = <<>>
    /\ error' = NoError
    /\ UNCHANGED <<setup_vars, loss_vars>>

NoLoss == [fn |-> "None", args |-> [property |-> "none", rho |-> <<0, 1>>],
           derivative |-> NoDerivative]
NoValue == [called |-> FALSE, value |-> <<0, 1>>]

Init ==
    /\ fs = [p \in Paths |-> AbsentDir]
    /\ rng_seed = NoSeed
    /\ call = NoCall
    /\ last_train = [p \in Paths |-> NoTrain]
    /\ pc = "idle"
    /\ script = "none"
    /\ args = NoArgs
    /\ train_args = NoArgs
    /\ run = NoRun
    /\ events = <<>>
    /\ error = NoError
    /\ loss_batch = <<>>
    /\ loss_result = <<>>
    /\ loss_closure = NoLoss
    /\ loss_value = NoValue

Next ==
    \/ Launch
    \/ SetupRun
    \/ BuildDataset
    \/ GetLoaders
    \/ GetRepresentation
    \/ BuildOutputModule
    \/ GetModel
    \/ GetTrainer
    \/ Train
    \/ LoadModel
    \/ Evaluate
    \/ UnknownMode
    \/ Exit

Spec == Init /\ [][Next]_vars

(***************************************************************************)
(* SpecSetup: setup_run called with any namespace on any file system.      *)
(***************************************************************************)
OldArtefacts(S) == [n \in S |-> "old"]

\* args.json left in p by an earlier train run
StoredDocs(p) ==
    {EncodeDict(a) : a \in {x \in SetupArgs : x.mode = "train" /\ x.modelpath = p}}

InitDirs(p) ==
    {AbsentDir}
    \cup {[exists |-> TRUE, files |-> OldArtefacts(S)] : S \in SUBSET ArtefactNames}
    \cup {[exists |-> TRUE, files |-> (JsonName :> d) @@ OldArtefacts(S)] :
            S \in SUBSET ArtefactNames, d \in StoredDocs(p)}

IdleScript ==
    /\ pc = "idle"
    /\ script = "none"
    /\ args = NoArgs
    /\ train_args = NoArgs
    /\ run = NoRun
    /\ events = <<>>
    /\ error = NoError

IdleLoss ==
    /\ loss_batch = <<>>
    /\ loss_result = <<>>
    /\ loss_closure = NoLoss
    /\ loss_value = NoValue

InitSetup ==
    /\ fs \in {f \in [Paths -> UNION {InitDirs(p) : p \in Paths}] :
                 \A p \in Paths : f[p] \in InitDirs(p)}
    /\ rng_seed = NoSeed
    /\ call = NoCall
    /\ last_train = [p \in Paths |-> NoTrain]
    /\ IdleScript
    /\ IdleLoss

\* train_args = setup_run(args), for any args
CallSetupRun ==
    /\ ~call.made
    /\ \E a \in SetupArgs : DoSetupRun(a)
    /\ UNCHANGED <<script_vars, loss_vars>>

\* The caller takes the returned namespace (or the exception) and goes on.
ReturnToCaller ==
    /\ call.made
    /\ call' = NoCall
    /\ UNCHANGED <<fs, rng_seed, last_train, script_vars, loss_vars>>

\* What follows setup_run in a script writes its artefacts under modelpath.
ProduceArtefact ==
    /\ ~call.made
    /\ \E p \in Paths : \E n \in ArtefactNames :
          /\ path_exists(fs, p)
          /\ fs' = write_file(fs, p, n, "new")
    /\ call' = NoCall
    /\ UNCHANGED <<rng_seed, last_train, script_vars, loss_vars>>

NextSetup ==
    \/ CallSetupRun
    \/ ReturnToCaller
    \/ ProduceArtefact

SpecSetup == InitSetup /\ [][NextSetup]_vars

(***************************************************************************)
(* Properties of setup_run (checked under SpecSetup).                      *)
(***************************************************************************)
CallPath == call.args.modelpath
TrainCall == call.made /\ call.args.mode = "train"
ReadCall == call.made /\ call.args.mode # "train"

\* Some file or directory that was there before the call is gone after it.
Removed(before, after) ==
    \E q \in Paths :
        \/ before[q].exists /\ ~after[q].exists
        \/ \E n \in DOMAIN before[q].files : n \notin DOMAIN after[q].files

\* C1: a setup_run call in a mode other than "train", made after a train-mode
\* call on the same modelpath, returns without error exactly vars(args) of the
\* latest train-mode call on that modelpath, whatever its own args hold.
C1_RunConfigRoundTrip ==
    (ReadCall /\ last_train[CallPath].done)
        => /\ call.err = "none"
           /\ call.ret = last_train[CallPath].vars

C1_Witness ==
    /\ ReadCall
    /\ call.args.mode = "eval"
    /\ last_train[CallPath].done
    /\ call.ret.seed # call.args.seed
    /\ call.ret.overwrite # call.args.overwrite
    /\ call.ret.mode = "train"

\* C2: when a train-mode setup_run returns, modelpath exists, modelpath/args.json
\* holds vars(args), the random seed is args.seed and the returned value is the
\* args object itself; for any file system before the call and either overwrite.
C2_TrainPostcondition ==
    TrainCall
        => /\ call.err = "none"
           /\ path_exists(fs, CallPath)
           /\ has_file(fs, CallPath, JsonName)
           /\ fs[CallPath].files[JsonName] = EncodeDict(call.args)
           /\ DecodeDoc(fs[CallPath].files[JsonName]) = call.args
           /\ rng_seed.set /\ rng_seed.value = call.args.seed
           /\ call.ref = "args"
           /\ call.ret = call.args

C2_Witness ==
    /\ TrainCall
    /\ ~call.before[CallPath].exists
    /\ call.args.overwrite
    /\ call.seed_before.set /\ call.seed_before.value # call.args.seed

\* C3: a train-mode call with overwrite on an existing modelpath leaves in it
\* exactly one entry, the new args.json; nothing is ever removed by a call that
\* is not in train mode or has overwrite false.
C3_OverwriteSemantics ==
    call.made
        => /\ (TrainCall /\ call.args.overwrite /\ call.before[CallPath].exists)
                => /\ path_exists(fs, CallPath)
                   /\ DOMAIN fs[CallPath].files = {JsonName}
                   /\ fs[CallPath].files[JsonName] = EncodeDict(call.args)
           /\ Removed(call.before, fs)
                => (call.args.mode = "train" /\ call.args.overwrite)

C3_Witness ==
    /\ TrainCall
    /\ call.args.overwrite
    /\ DOMAIN call.before[CallPath].files = ArtefactNames \cup {JsonName}
    /\ call.before[CallPath].files[JsonName] # EncodeDict(call.args)
    /\ DOMAIN fs[CallPath].files = {JsonName}

\* C6: a call in a mode other than "train" leaves the file system and the random
\* seed as they were and does not depend on args.overwrite; without
\* modelpath/args.json it ends in an error and returns nothing.
C6_ReadOnlyOutsideTrain ==
    ReadCall
        => /\ fs = call.before
           /\ rng_seed = call.seed_before
           /\ has_file(call.before, CallPath, JsonName)
                => (call.err = "none" /\ call.ref = "new_namespace")
           /\ ~has_file(call.before, CallPath, JsonName)
                => (call.err # "none" /\ call.ref = "none")
           /\ LET o == setup_run([call.args EXCEPT !.overwrite = ~@],
                                 call.before, call.seed_before)
              IN /\ o.fs = fs
                 /\ o.seed = rng_seed
                 /\ o.err = call.err
                 /\ o.ref = call.ref
                 /\ (call.err = "none" => o.ret = call.ret)

C6_Witness ==
    /\ ReadCall
    /\ call.args.mode = "predict"
    /\ call.args.overwrite
    /\ call.before[CallPath].exists
    /\ DOMAIN call.before[CallPath].files = ArtefactNames
    /\ call.err = "FileNotFoundError"
    /\ fs = call.before

\* C7: a train-mode call without overwrite on an existing modelpath keeps every
\* entry other than args.json as it was (name and content), writes the new
\* args.json and touches no other modelpath.
C7_TrainWithoutOverwriteKeepsArtefacts ==
    (TrainCall /\ ~call.args.overwrite /\ call.before[CallPath].exists)
        => /\ OtherFiles(fs, CallPath) = OtherFiles(call.before, CallPath)
           /\ fs[CallPath].files[JsonName] = EncodeDict(call.args)
           /\ \A q \in Paths \ {CallPath} : fs[q] = call.before[q]

C7_Witness ==
    /\ TrainCall
    /\ ~call.args.overwrite
    /\ DOMAIN call.before[CallPath].files = ArtefactNames \cup {JsonName}
    /\ call.before[CallPath].files["best_model"] = "old"
    /\ call.before[CallPath].files["split.npz"] = "new"
    /\ call.before[CallPath].files[JsonName] # EncodeDict(call.args)
    /\ OtherFiles(fs, CallPath) = OtherFiles(call.before, CallPath)

(***************************************************************************)
(* SpecLoss: the loss closures evaluated on any batch and result.          *)
(***************************************************************************)
Rhos == {<<0, 1>>, <<1, 2>>, <<1, 1>>, <<3, 2>>}
TensorLens == {1, 2}
Tensors(n) == [1..n -> 0..MaxVal]
LossArgs == [property : {"energy", "forces"}, rho : Rhos]

InitLoss ==
    /\ \E le \in TensorLens : \E lf \in TensorLens :
          /\ loss_batch \in [energy : Tensors(le), forces : Tensors(lf)]
          /\ loss_result \in [energy : Tensors(le), forces : Tensors(lf)]
    /\ loss_closure = NoLoss
    /\ loss_value = NoValue
    /\ fs = [p \in Paths |-> AbsentDir]
    /\ rng_seed = NoSeed
    /\ call = NoCall
    /\ last_train = [p \in Paths |-> NoTrain]
    /\ IdleScript

\* loss_fn = simple_loss_fn(args)
MakeSimpleLoss ==
    /\ \E a \in LossArgs : loss_closure' = simple_loss_fn(a)
    /\ loss_value' = NoValue
    /\ UNCHANGED <<loss_batch, loss_result, setup_vars, script_vars>>

\* loss_fn = tradeoff_loff_fn(args, "forces")
MakeTradeoffLoss ==
    /\ \E a \in LossArgs : loss_closure' = tradeoff_loff_fn(a, "forces")
    /\ loss_value' = NoValue
    /\ UNCHANGED <<loss_batch, loss_result, setup_vars, script_vars>>

\* loss_fn(batch, result)
CallLoss ==
    /\ loss_closure.fn # "None"
    /\ ~loss_value.called
    /\ loss_value' =
          [called |-> TRUE,
           value |-> call_loss(loss_closure, loss_batch, loss_result)]
    /\ UNCHANGED <<loss_batch, loss_result, loss_closure, setup_vars, script_vars>>

NextLoss ==
    \/ MakeSimpleLoss
    \/ MakeTradeoffLoss
    \/ CallLoss

SpecLoss == InitLoss /\ [][NextLoss]_vars

(***************************************************************************)
(* Properties of the loss closures (checked under SpecLoss).               *)
(***************************************************************************)
\* sum over i <= n of (b[i] - r[i])^2
RECURSIVE SquaredError(_, _, _)
SquaredError(b, r, n) ==
    IF n = 0 THEN 0
    ELSE (b[n] - r[n]) * (b[n] - r[n]) + SquaredError(b, r, n - 1)

TradeoffCalled == loss_value.called /\ loss_closure.fn = "tradeoff_loss"
LossProperty == loss_closure.args.property
LossRho == loss_closure.args.rho

\* value = rho * mean((batch[p] - result[p])^2)
\*         + (1 - rho) * mean((batch[d] - result[d])^2), cross-multiplied
IsTradeoffValue(v) ==
    LET ne == Len(loss_batch[LossProperty])
        nf == Len(loss_batch[loss_closure.derivative])
        se == SquaredError(loss_batch[LossProperty], loss_result[LossProperty], ne)
        sf == SquaredError(loss_batch[loss_closure.derivative],
                           loss_result[loss_closure.derivative], nf)
    IN /\ v[2] > 0
       /\ v[1] * (LossRho[2] * ne * nf)
            = v[2] * (LossRho[1] * se * nf + (LossRho[2] - LossRho[1]) * sf * ne)

\* The loss does not depend on the reference or predicted property values.
IgnoresPropertyValues ==
    \A b \in Tensors(Len(loss_batch[LossProperty])) :
        \A r \in Tensors(Len(loss_batch[LossProperty])) :
            call_loss(loss_closure,
                      [loss_batch EXCEPT ![LossProperty] = b],
                      [loss_result EXCEPT ![LossProperty] = r])
                = loss_value.value

EqualsSimpleLoss ==
    loss_value.value
        = call_loss(simple_loss_fn(loss_closure.args), loss_batch, loss_result)

\* C4 as stated: the trade-off loss is rho * mean(squared property error)
\* + (1 - rho) * mean(squared derivative error); for rho = 0 it is unchanged by
\* any change of the property values; for rho = 1 it equals the simple loss.
C4_TradeoffLossAsStated ==
    TradeoffCalled
        => /\ IsTradeoffValue(loss_value.value)
           /\ LossRho = <<0, 1>> => IgnoresPropertyValues
           /\ LossRho = <<1, 1>> => EqualsSimpleLoss

\* C4, amended: for rho = 0 the loss is unchanged by any change of the property
\* values provided args.property is not the derivative key itself.
C4_TradeoffLoss ==
    TradeoffCalled
        => /\ IsTradeoffValue(loss_value.value)
           /\ (LossRho = <<0, 1>> /\ LossProperty # loss_closure.derivative)
                => IgnoresPropertyValues
           /\ LossRho = <<1, 1>> => EqualsSimpleLoss

C4_Witness ==
    /\ TradeoffCalled
    /\ LossRho = <<0, 1>>
    /\ LossProperty = "energy"
    /\ loss_batch.energy # loss_result.energy
    /\ Len(loss_batch.energy) # Len(loss_batch.forces)
    /\ loss_value.value # <<0, 1>>

(***************************************************************************)
(* Properties of the scripts and of get_trainer (checked under Spec).      *)
(***************************************************************************)
Has(e) == \E i \in 1..Len(events) : events[i] = e
Precedes(e1, e2) ==
    \A j \in 1..Len(events) :
        events[j] = e2 => \E i \in 1..(j - 1) : events[i] = e1
Running == pc # "idle"
Ended == pc \in Final
SupportedModels == {"schnet", "wacsf"}
TrainerBuilt == Running /\ run.trainer.cls = "Trainer"
Hooks == run.trainer.hooks
LoggingClasses == {"CSVHook", "TensorboardHook"}

\* C5: a train-mode run of any of the three scripts with model "schnet" or
\* "wacsf" builds its output module and goes through get_model, get_trainer and
\* trainer.train; the output-module selection raises NotImplementedError only
\* for other model names.
C5_SupportedModelsReachTraining ==
    /\ (Ended /\ args.mode = "train" /\ args.model \in SupportedModels)
            => /\ error = NoError
               /\ Has("output_module") /\ Has("get_model")
               /\ Has("get_trainer") /\ Has("train")
    /\ (Ended /\ error.at = "output_module" /\ error.type = "NotImplementedError")
            => args.model \notin SupportedModels

\* C8: the Trainer's hooks are MaxEpochHook(args.max_epochs), then a
\* ReduceLROnPlateauHook on the Trainer's own optimizer with patience
\* lr_patience, factor lr_decay, min_lr lr_min, window_length 1 and
\* stop_after_min, then one CSVHook (logger "csv") or one TensorboardHook
\* (logger "tensorboard") on modelpath/log, and no logging hook otherwise.
C8_HookWiring ==
    TrainerBuilt
        => /\ Len(Hooks) = (IF args.logger \in {"csv", "tensorboard"} THEN 3 ELSE 2)
           /\ Hooks[1] = [cls |-> "MaxEpochHook", max_epochs |-> args.max_epochs]
           /\ Hooks[2].cls = "ReduceLROnPlateauHook"
           /\ Hooks[2].optimizer = run.trainer.optimizer
           /\ Hooks[2].patience = args.lr_patience
           /\ Hooks[2].factor = args.lr_decay
           /\ Hooks[2].min_lr = args.lr_min
           /\ Hooks[2].window_length = 1
           /\ Hooks[2].stop_after_min
           /\ Cardinality({i \in 1..Len(Hooks) : Hooks[i].cls \in LoggingClasses}) <= 1
           /\ \A i \in 1..Len(Hooks) :
                Hooks[i].cls \in LoggingClasses
                    => /\ i = 3
                       /\ Hooks[i].path = <<args.modelpath, "log">>
                       /\ Hooks[i].cls = (IF args.logger = "csv" THEN "CSVHook"
                                          ELSE "TensorboardHook")
           /\ args.logger \in {"csv", "tensorboard"} => Hooks[3].cls \in LoggingClasses

C8_Witness ==
    /\ TrainerBuilt
    /\ args.logger = "none"
    /\ Len(Hooks) = 2
    /\ Has("get_trainer")

\* mean((b - r)^2) = v, cross-multiplied
IsMeanSquaredError(v, b, r) ==
    v[2] > 0 /\ v[1] * Len(b) = v[2] * SquaredError(b, r, Len(b))

\* C9: with a loss_fn passed in, the Trainer holds exactly that closure (MD17: the
\* rho trade-off loss on "forces"); without one it holds simple_loss_fn(args),
\* the mean squared error on args.property (ANI1, QM9).
C9_LossSelection ==
    TrainerBuilt
        => IF script = "md17"
           THEN /\ run.trainer.loss_fn.fn = "tradeoff_loss"
                /\ run.trainer.loss_fn.derivative = "forces"
                /\ run.trainer.loss_fn.args = args
           ELSE /\ run.trainer.loss_fn.fn = "simple_loss"
                /\ run.trainer.loss_fn.args = args
                /\ \A b \in Tensors(2) : \A r \in Tensors(2) :
                      IsMeanSquaredError(
                          call_loss(run.trainer.loss_fn,
                                    (args.property :> b), (args.property :> r)),
                          b, r)

C9_Witness ==
    /\ TrainerBuilt
    /\ script = "md17"
    /\ run.trainer.loss_fn.fn = "tradeoff_loss"
    /\ run.trainer.loss_fn.args.rho = <<1, 10>>
    /\ Has("train")

JsonPersisted ==
    /\ has_file(fs, args.modelpath, JsonName)
    /\ fs[args.modelpath].files[JsonName] = EncodeDict(args)

\* What C10 says of every mode: order of the steps, train and evaluate
\* exclusive, eval on the loaded best_model, args.json not rewritten.
C10_OrderAndExclusivity ==
    Running
        => /\ Len(events) >= 2 => events[2] = "setup_run"
           /\ Precedes("setup_run", "dataset")
           /\ Precedes("dataset", "get_loaders")
           /\ Precedes("get_loaders", "train")
           /\ Precedes("get_loaders", "evaluate")
           /\ (args.mode = "train" /\ Has("setup_run")) => JsonPersisted
           /\ Has("train") => args.mode = "train"
           /\ Has("evaluate") => args.mode = "eval"
           /\ ~(Has("train") /\ Has("evaluate"))
           /\ Has("evaluate")
                => /\ run.model.source = "torch.load"
                   /\ run.model.path = <<args.modelpath, "best_model">>
           /\ (args.mode # "train" /\ has_file(fs, args.modelpath, JsonName))
                => /\ last_train[args.modelpath].done
                   /\ fs[args.modelpath].files[JsonName]
                        = EncodeDict(last_train[args.modelpath].vars)
                   /\ fs[args.modelpath].files[JsonName] # EncodeDict(args)

UnknownModeRun == Ended /\ args.mode \notin {"train", "eval"}

\* C10 as stated: ..., and a run in a mode that is neither "train" nor "eval"
\* ends in NotImplementedError without training or evaluating.
C10_AsStated ==
    /\ C10_OrderAndExclusivity
    /\ UnknownModeRun
            => /\ error.type = "NotImplementedError"
               /\ ~Has("train") /\ ~Has("evaluate")

\* C10, amended: a run in a mode that is neither "train" nor "eval" ends in an
\* error without training or evaluating; the error is NotImplementedError when
\* setup_run, the dataset and the loaders succeeded, and otherwise the error of
\* the step that failed (setup_run's when modelpath/args.json is missing).
C10_ScriptOrder ==
    /\ C10_OrderAndExclusivity
    /\ UnknownModeRun
            => /\ pc = "failed"
               /\ ~Has("train") /\ ~Has("evaluate")
               /\ Has("get_loaders")
                    <=> (error.type = "NotImplementedError" /\ error.at = "mode")
               /\ ~has_file(fs, args.modelpath, JsonName)
                    <=> (error.type = "FileNotFoundError" /\ error.at = "setup_run")

C10_Witness ==
    /\ UnknownModeRun
    /\ error.type = "NotImplementedError"
    /\ events = <<"parse_args", "setup_run", "dataset", "get_loaders">>
    /\ has_file(fs, args.modelpath, "best_model")

====
